---- MODULE Spec2Model ----
(***************************************************************************)
(* Interval abstract interpreter (include/interval.hpp,                    *)
(* include/interval_store.hpp, include/abstract_interpeter.hpp).           *)
(*                                                                         *)
(* The model holds the AST of the analysed program, the vector of          *)
(* locations that create_top_locations builds from it, and the position    *)
(* of eval_all / check_assertions.  Every eval() override is one action.   *)
(*                                                                         *)
(* Integer widths are scaled: TLC integers are 32 bit, so int64_t is       *)
(* modelled with IntBits64 bits and int32_t with IntBits32 bits.  The      *)
(* relations the code depends on are kept: the 32 bit range lies strictly  *)
(* inside the 64 bit range, the narrowing cast is modular, and the casts   *)
(* of the two 64 bit extrema are special-cased.                            *)
(***************************************************************************)
EXTENDS Integers, Sequences, FiniteSets, TLC

\* ------------------------------------------------------------------ bounds

\* Number of top-level statements after the initialising prefix.
MaxStmts == 2

\* Number of passes of eval_all the model follows.
MaxIter == 6

\* Iterations of a concrete while loop followed by the reference semantics.
MaxUnroll == 3

\* ------------------------------------------------------- machine integers

\* Width of int64_t (scaled).
IntBits64 == 30

\* Width of int32_t (scaled).
IntBits32 == 16

I64Min == -(2 ^ (IntBits64 - 1))

I64Max == (2 ^ (IntBits64 - 1)) - 1

I32Min == -(2 ^ (IntBits32 - 1))

I32Max == (2 ^ (IntBits32 - 1)) - 1

Min(a, b) == IF a < b THEN a ELSE b

Max(a, b) == IF a > b THEN a ELSE b

\* Two's complement reduction to a signed integer of the given width.
Wrap(v, bits) == ((v + 2 ^ (bits - 1)) % (2 ^ bits)) - 2 ^ (bits - 1)

\* static_cast<int32_t>(int64 value): modular narrowing.
Cast32(v) == Wrap(v, IntBits32)

\* ---------------------------------------------------------------- Interval

\* Interval(T l, T u): the empty flag takes its default, false.
Interval(l, u) == [lo |-> l, hi |-> u, empty |-> FALSE]

\* Interval(): the top interval.
Top == Interval(I64Min, I64Max)

\* Copy constructor: lower and upper are copied, the flag is not.
CopyInterval(iv) == Interval(iv.lo, iv.hi)

\* build_empty(): bounds crossed at the extrema, flag set.
BuildEmpty == [lo |-> I64Max, hi |-> I64Min, empty |-> TRUE]

\* Interval::join
Join(a, b) == [lo |-> Min(a.lo, b.lo), hi |-> Max(a.hi, b.hi), empty |-> a.empty /\ b.empty]

\* Interval::meet
Meet(a, b) == [lo |-> Max(a.lo, b.lo), hi |-> Min(a.hi, b.hi), empty |-> a.empty \/ b.empty]

\* Interval::operator+ on the machine type.
IntervalAdd(a, b) == Interval(Wrap(a.lo + b.lo, IntBits64), Wrap(a.hi + b.hi, IntBits64))

\* Interval::operator- on the machine type.
IntervalSub(a, b) == Interval(Wrap(a.lo - b.hi, IntBits64), Wrap(a.hi - b.lo, IntBits64))

\* Interval::operator== compares the bounds only.
IntervalEq(a, b) == a.lo = b.lo /\ a.hi = b.hi

\* Interval::isEmpty
IsEmpty(iv) == iv.lo > iv.hi

\* Interval::contains
Contains(iv, v) == v >= iv.lo /\ v <= iv.hi

\* Interval::widen
Widen(prev, next) ==
    Interval(IF next.lo < prev.lo THEN I64Min ELSE prev.lo,
             IF next.hi > prev.hi THEN I64Max ELSE prev.hi)

\* ----------------------------------------------------------- IntervalStore

\* IntervalStore(): no variable.
EmptyStore == [v \in {} |-> Top]

\* has_variable
HasVariable(s, v) == v \in DOMAIN s

\* get_interval: a copy of the entry, top for a missing variable.
GetInterval(s, v) == IF v \in DOMAIN s THEN CopyInterval(s[v]) ELSE Top

\* update_interval: intervals[var] = interval.  operator[] default-constructs
\* a missing entry, operator= then copies the two bounds.
UpdateInterval(s, v, iv) ==
    [w \in (DOMAIN s) \cup {v} |->
        IF w = v
        THEN [lo |-> iv.lo, hi |-> iv.hi,
              empty |-> IF v \in DOMAIN s THEN s[v].empty ELSE FALSE]
        ELSE s[w]]

\* IntervalStore::join
StoreJoin(s, o) ==
    [v \in (DOMAIN s) \cup (DOMAIN o) |->
        IF v \in DOMAIN s
        THEN IF HasVariable(o, v)
             THEN CopyInterval(Join(s[v], GetInterval(o, v)))
             ELSE CopyInterval(s[v])
        ELSE CopyInterval(o[v])]

\* IntervalStore::operator==: std::map equality, keys and Interval::operator==.
StoreEq(s, o) ==
    /\ DOMAIN s = DOMAIN o
    /\ \A v \in DOMAIN s : IntervalEq(s[v], o[v])

\* Copy of a store (Store new_store = *(deps[0])).
CopyStore(s) == [v \in DOMAIN s |-> CopyInterval(s[v])]

\* --------------------------------------------------------------------- AST

\* ASTNode: a type, a value (an int, or a string / operator tag) and children.
\* children[0] of the code is children[1] here.
Node(t, i, s, ch) == [type |-> t, ival |-> i, sval |-> s, children |-> ch]

IntLit(n) == Node("INTEGER", n, "", <<>>)

VarRef(v) == Node("VARIABLE", 0, v, <<>>)

Arith(op, l, r) == Node("ARITHM_OP", 0, op, <<l, r>>)

Logic(op, l, r) == Node("LOGIC_OP", 0, op, <<l, r>>)

\* The wrapper node that holds a condition or a block as its first child.
Block(n) == Node("BLOCK", 0, "", <<n>>)

Assign(v, e) == Node("ASSIGNMENT", 0, "", <<VarRef(v), e>>)

\* pre lb <= v <= ub: the bounds are the first children of the two conditions.
PreCon(lb, v, ub) ==
    Node("PRE_CON", 0, "", <<Logic("LEQ", IntLit(lb), VarRef(v)), Logic("GEQ", IntLit(ub), VarRef(v))>>)

PostCon(c) == Node("POST_CON", 0, "", <<c>>)

IfThenElse(c, t, e) == Node("IFELSE", 0, "", <<Block(c), Block(t), Block(e)>>)

IfThen(c, t) == Node("IFELSE", 0, "", <<Block(c), Block(t)>>)

While(c, b) == Node("WHILELOOP", 0, "", <<Block(c), Block(b)>>)

Sequence(ss) == Node("SEQUENCE", 0, "", ss)

Declaration(vs) == Node("DECLARATION", 0, "", [k \in 1..Len(vs) |-> VarRef(vs[k])])

\* The root: the declarations, then the statement sequence.
Program(vs, ss) == Node("PROGRAM", 0, "", <<Declaration(vs), Sequence(ss)>>)

\* No node: the member does not exist in the class, or is never read.
NoNode == <<>>

\* ------------------------------------------------------ transfer functions

\* negate_logic_op
negate_logic_op(op) ==
    CASE op = "EQ" -> "NEQ"
      [] op = "NEQ" -> "EQ"
      [] op = "LE" -> "GEQ"
      [] op = "LEQ" -> "GE"
      [] op = "GE" -> "LEQ"
      [] op = "GEQ" -> "LE"
      [] OTHER -> "EQ"

\* evalArithmeticExpr, for the literals, variables, sums and differences
\* the analysed programs are built from.
RECURSIVE evalArithmeticExpr(_, _)
evalArithmeticExpr(node, store) ==
    CASE node.type = "INTEGER" -> Interval(node.ival, node.ival)
      [] node.type = "VARIABLE" -> GetInterval(store, node.sval)
      [] node.type = "ARITHM_OP" ->
            LET left == evalArithmeticExpr(node.children[1], store)
                right == evalArithmeticExpr(node.children[2], store)
            IN  CASE node.sval = "ADD" -> IntervalAdd(left, right)
                  [] node.sval = "SUB" -> IntervalSub(left, right)
                  [] OTHER -> Top

\* The cast of a lower bound at the head of evalLogicalExpr.
LowerToInt32(v) == IF v = I64Min THEN I32Min ELSE Cast32(v)

\* The cast of an upper bound at the head of evalLogicalExpr.
UpperToInt32(v) == IF v = I64Max THEN I32Max ELSE Cast32(v)

\* The NEQ case of evalLogicalExpr; result = ... copies the bounds only.
NeqFilter(left, right, inter) ==
    IF inter.lo = inter.hi /\ left.lo = left.hi /\ inter.lo = left.lo
    THEN CopyInterval(BuildEmpty)
    ELSE CopyInterval(left)

\* evalLogicalExpr: the interval of the left operand restricted by the condition.
evalLogicalExpr(node, store) ==
    LET left == evalArithmeticExpr(node.children[1], store)
        right == evalArithmeticExpr(node.children[2], store)
        op == node.sval
        left_lower == LowerToInt32(left.lo)
        right_lower == LowerToInt32(right.lo)
        left_upper == UpperToInt32(left.hi)
        right_upper == UpperToInt32(right.hi)
    IN  CASE op = "EQ" -> Interval(Max(left_lower, right_lower), Min(left_upper, right_upper))
          [] op = "NEQ" ->
                NeqFilter(left, right,
                          Interval(Max(left_lower, right_lower), Min(left_upper, right_upper)))
          [] op = "LE" ->
                Interval(left_lower, IF left_upper < right_upper THEN left_upper ELSE right_upper - 1)
          [] op = "LEQ" ->
                Interval(left_lower, IF left_upper < right_upper THEN left_upper ELSE right_upper)
          [] op = "GE" ->
                Interval(IF left_lower > right_lower THEN left_lower ELSE right_lower + 1, left_upper)
          [] op = "GEQ" ->
                Interval(IF left_lower > right_lower THEN left_lower ELSE right_lower, left_upper)

\* The filter every guarded location applies:
\* update_interval(var, evalLogicalExpr(logic_node, s).meet(s.get_interval(var))).
FilterStore(logic_node, var, s) ==
    UpdateInterval(s, var, Meet(evalLogicalExpr(logic_node, s), GetInterval(s, var)))

\* --------------------------------------------------------------- locations

\* A location: its kind (the class), the AST node and guard it holds, its
\* store, and its references to other locations, kept as indices into the
\* vector (locations[0] of the code is locations[1] here; 0 is "none").
\* The node member of the guarded locations is never read and is left out.
Location(k, n, lg, v, st, d) ==
    [kind |-> k, node |-> n, logic_node |-> lg, var |-> v, store |-> st, deps |-> d,
     iflocation |-> 0, elselocation |-> 0, postwhile_store |-> 0, first |-> TRUE]

\* The guard of an IFELSE / WHILELOOP node: ast.children[0].children[0].
GuardOf(ast) == ast.children[1].children[1]

\* The body of a branch or loop: ast.children[k].children[0].
BodyOf(ast, k) == ast.children[k].children[1]

\* The guard with its operator negated.
Negated(logic_node) == [logic_node EXCEPT !.sval = negate_logic_op(@)]

\* The dependency of the postwhile location: &(locations.back()->store) once
\* the body is emitted, the last location of the body.
PostwhileDep(head, last) == last

\* create_locations(ast, i): the vector after the locations of ast are pushed.
RECURSIVE create_locations(_, _, _)
RECURSIVE create_children(_, _, _)
create_locations(ast, i, locs) ==
    CASE ast.type = "ASSIGNMENT" ->
            Append(locs, Location("assignment", ast, NoNode, "", locs[i].store, <<i>>))
      [] ast.type = "PRE_CON" ->
            Append(locs, Location("precondition", ast, NoNode, "", locs[i].store, <<i>>))
      [] ast.type = "IFELSE" ->
            LET logic_node == GuardOf(ast)
                var == logic_node.children[1].sval
                l1 == Append(locs, Location("preif", NoNode, logic_node, var, locs[i].store, <<i>>))
                l2 == create_locations(BodyOf(ast, 2), Len(l1), l1)
                iflocation == Len(l2)
                hasElse == Len(ast.children) = 3
                l3 == IF hasElse
                      THEN Append(l2, Location("preif", NoNode, Negated(logic_node), var,
                                               locs[i].store, <<i>>))
                      ELSE l2
                l4 == IF hasElse THEN create_locations(BodyOf(ast, 3), Len(l3), l3) ELSE l3
                elselocation == Len(l4)
            IN  Append(l4, [Location("ifelse", NoNode, NoNode, "", locs[i].store, <<>>)
                               EXCEPT !.iflocation = iflocation, !.elselocation = elselocation])
      [] ast.type = "WHILELOOP" ->
            LET logic_node == GuardOf(ast)
                var == logic_node.children[1].sval
                l1 == Append(locs, Location("prewhile", NoNode, logic_node, var, locs[i].store, <<i>>))
                head == Len(l1)
                l2 == create_locations(BodyOf(ast, 2), head, l1)
                l3 == [l2 EXCEPT ![head].postwhile_store = Len(l2)]
            IN  Append(l3, Location("postwhile", NoNode, Negated(logic_node), var,
                                    locs[i].store, <<PostwhileDep(head, Len(l3))>>))
      [] ast.type = "SEQUENCE" -> create_children(ast.children, 1, locs)
      [] OTHER -> locs

\* for (child : children) create_locations(child, locations.size() - 1)
create_children(children, k, locs) ==
    IF k > Len(children) THEN locs
    ELSE create_children(children, k + 1, create_locations(children[k], Len(locs), locs))

\* The store of locations[0] once every declared variable is set to top.
RECURSIVE DeclaredStore(_, _, _)
DeclaredStore(children, k, s) ==
    IF k > Len(children) THEN s
    ELSE DeclaredStore(children, k + 1, UpdateInterval(s, children[k].sval, Top))

\* create_top_locations: the declaration location, then the locations of
\* every SEQUENCE child of the root.
RECURSIVE create_top(_, _, _)
create_top(children, k, locs) ==
    IF k > Len(children) THEN locs
    ELSE LET c == children[k]
         IN  create_top(children, k + 1,
                CASE c.type = "DECLARATION" ->
                        [locs EXCEPT ![1].store = DeclaredStore(c.children, 1, @)]
                  [] c.type = "SEQUENCE" -> create_children(c.children, 1, locs)
                  [] OTHER -> locs)

create_top_locations(ast) ==
    create_top(ast.children, 1, <<Location("declaration", NoNode, NoNode, "", EmptyStore, <<>>)>>)

\* ------------------------------------------------------- analysed programs

X == VarRef("x")

Y == VarRef("y")

IncX == Assign("x", Arith("ADD", X, IntLit(1)))

IncY == Assign("y", Arith("ADD", Y, IntLit(1)))

\* while (x < 10) { x := x + 1 }
WhileInc == While(Logic("LE", X, IntLit(10)), IncX)

\* while (x < 10) { y := y + 1; x := x + 1 }
WhileCount == While(Logic("LE", X, IntLit(10)), Sequence(<<IncY, IncX>>))

\* if (x == 0) { x := 1 } else { x := x }
IfZero == IfThenElse(Logic("EQ", X, IntLit(0)), Assign("x", IntLit(1)), Assign("x", X))

\* if (x < 5) { x := x + 1 } else { x := x - 1 }
IfSmall ==
    IfThenElse(Logic("LE", X, IntLit(5)), IncX, Assign("x", Arith("SUB", X, IntLit(1))))

\* if (x >= 5) { x := x + 1 } else { x := x }
IfBig == IfThenElse(Logic("GEQ", X, IntLit(5)), IncX, Assign("x", X))

\* if (x != y) { x := x } else { x := x }
IfDiffer == IfThenElse(Logic("NEQ", X, Y), Assign("x", X), Assign("x", X))

\* if (x > 0) { x := 0 }
IfReset == IfThen(Logic("GE", X, IntLit(0)), Assign("x", IntLit(0)))

AssertLeq10 == PostCon(Logic("LEQ", X, IntLit(10)))

AssertGeq0 == PostCon(Logic("GEQ", X, IntLit(0)))

AssertGeq10 == PostCon(Logic("GEQ", X, IntLit(10)))

AssertGeq1 == PostCon(Logic("GEQ", X, IntLit(1)))

\* The statements of a program over x.
MenuX ==
    {IncX, Assign("x", IntLit(20)), WhileInc, IfZero, IfSmall, IfBig, IfReset,
     AssertLeq10, AssertGeq0, AssertGeq10, AssertGeq1}

\* The statements of a program over x and y.
MenuXY == MenuX \cup {WhileCount, PreCon(-5, "y", 5), IfDiffer}

\* The statements that give x its first value.
InitX ==
    {Assign("x", IntLit(0)), Assign("x", IntLit(20)), PreCon(-5, "x", 5), PreCon(0, "x", 100)}

\* The sequences of 1..n statements of a menu.
Bodies(menu, n) == UNION {[1..k -> menu] : k \in 1..n}

\* The programs analysed: every variable is declared and given a value, then
\* up to MaxStmts statements follow.
Programs ==
    {Program(<<"x">>, <<i>> \o b) : i \in InitX, b \in Bodies(MenuX, MaxStmts)}
    \cup
    {Program(<<"x", "y">>, <<Assign("x", IntLit(0)), Assign("y", IntLit(0))>> \o b) :
        b \in Bodies(MenuXY, MaxStmts)}

\* ------------------------------------------------------------------- state

VARIABLES
    ast,          \* the analysed program
    locations,    \* AbstractInterpreter::locations
    end,          \* AbstractInterpreter::end
    iteration,    \* AbstractInterpreter::iteration
    pc,           \* "loop": at while (!end); "pass": inside the for loop;
                  \* "check": eval_all returned; "done": check_assertions returned
    i,            \* the for loop's index (1-based)
    verdicts,     \* what check_assertions reported, one entry per assertion
    changed,      \* history: did a store change in the current pass
    quietPasses,  \* history: completed passes in which no store changed
    changes       \* history: per location and variable, how often the interval changed
                  \* after the location's first evaluation

vars == <<ast, locations, end, iteration, pc, i, verdicts, changed, quietPasses, changes>>

Init ==
    /\ ast \in Programs
    /\ locations = create_top_locations(ast)
    /\ end = FALSE
    /\ iteration = 0
    /\ pc = "loop"
    /\ i = 1
    /\ verdicts = <<>>
    /\ changed = FALSE
    /\ quietPasses = 0
    /\ changes = [k \in 1..Len(locations) |-> [v \in DOMAIN locations[1].store |-> 0]]

\* ------------------------------------------------------------------ eval()

\* *(deps[0]) of location k.
Dep(locs, k) == CopyStore(locs[locs[k].deps[1]].store)

\* assignment_location::eval / assignment_eq: the store it writes.
AssignmentStore(locs, k) ==
    LET node == locs[k].node
        var == node.children[1].sval
        value == evalArithmeticExpr(node.children[2], Dep(locs, k))
    IN  UpdateInterval(Dep(locs, k), var, value)

\* precondition_location::eval
PreconditionStore(locs, k) ==
    LET node == locs[k].node
        var == node.children[1].children[2].sval
        lb == node.children[1].children[1].ival
        ub == node.children[2].children[1].ival
    IN  UpdateInterval(Dep(locs, k), var, Interval(lb, ub))

\* preif_location::eval
PreifStore(locs, k) == FilterStore(locs[k].logic_node, locs[k].var, Dep(locs, k))

\* ifelse_location::eval
IfelseStore(locs, k) ==
    StoreJoin(locs[locs[k].iflocation].store, locs[locs[k].elselocation].store)

\* prewhile_location::eval, up to the widening: deps[0], joined with the
\* store of the body's last location on every evaluation but the first.
PrewhileJoined(locs, k) ==
    IF locs[k].first THEN Dep(locs, k)
    ELSE StoreJoin(Dep(locs, k), locs[locs[k].postwhile_store].store)

\* The widening block of prewhile_location::eval, on the guard's variable.
PrewhileWidened(old_iv, joined_iv) ==
    Interval(IF old_iv.lo > joined_iv.lo THEN I64Min ELSE old_iv.lo,
             IF old_iv.hi < joined_iv.hi THEN I64Max ELSE old_iv.hi)

\* prewhile_location::eval: join, widen the guard's variable, filter by the guard.
PrewhileStore(locs, k) ==
    LET var == locs[k].var
        joined == PrewhileJoined(locs, k)
        widened == UpdateInterval(joined, var,
                       PrewhileWidened(GetInterval(locs[k].store, var), GetInterval(joined, var)))
    IN  FilterStore(locs[k].logic_node, var, widened)

\* postwhile_location::eval: deps[0] filtered by the negated guard.
PostwhileStore(locs, k) == FilterStore(locs[k].logic_node, locs[k].var, Dep(locs, k))

\* loc->eval(): the store the location's class writes.
EvalStore(locs, k) ==
    CASE locs[k].kind = "declaration" -> locs[k].store
      [] locs[k].kind = "assignment" -> AssignmentStore(locs, k)
      [] locs[k].kind = "precondition" -> PreconditionStore(locs, k)
      [] locs[k].kind = "preif" -> PreifStore(locs, k)
      [] locs[k].kind = "ifelse" -> IfelseStore(locs, k)
      [] locs[k].kind = "prewhile" -> PrewhileStore(locs, k)
      [] locs[k].kind = "postwhile" -> PostwhileStore(locs, k)

\* end = loc->eval() || end
EndUpdateOr(same, e) == same \/ e

\* end = loc->eval() && end, eval() returning store == new_store.
EndUpdate(same, e) == same /\ e

\* The part every eval() shares inside the for loop of eval_all: the store
\* is replaced, end is updated, the loop moves on.
Evaluate(kind, ns) ==
    /\ pc = "pass"
    /\ i <= Len(locations)
    /\ locations[i].kind = kind
    /\ locations' = [locations EXCEPT ![i].store = ns,
                                      ![i].first = IF kind = "prewhile" THEN FALSE ELSE @]
    /\ end' = EndUpdate(StoreEq(locations[i].store, ns), end)
    /\ i' = i + 1
    /\ changed' = (changed \/ locations[i].store # ns)
    /\ changes' = [changes EXCEPT ![i] =
                      [v \in DOMAIN @ |->
                          IF iteration > 0 /\ v \in DOMAIN ns /\ v \in DOMAIN locations[i].store
                             /\ ns[v] # locations[i].store[v]
                          THEN @[v] + 1 ELSE @[v]]]
    /\ UNCHANGED <<ast, iteration, pc, verdicts, quietPasses>>

\* declaration_location::eval: returns true, the store is left alone.
EvalDeclaration == Evaluate("declaration", locations[i].store)

EvalAssignment == Evaluate("assignment", AssignmentStore(locations, i))

EvalPrecondition == Evaluate("precondition", PreconditionStore(locations, i))

EvalPreif == Evaluate("preif", PreifStore(locations, i))

EvalIfelse == Evaluate("ifelse", IfelseStore(locations, i))

EvalPrewhile == Evaluate("prewhile", PrewhileStore(locations, i))

EvalPostwhile == Evaluate("postwhile", PostwhileStore(locations, i))

\* ---------------------------------------------------------------- eval_all

\* while (!end) { end = true; for (i = 0; ...
BeginPass ==
    /\ pc = "loop"
    /\ ~end
    /\ iteration < MaxIter
    /\ end' = TRUE
    /\ i' = 1
    /\ pc' = "pass"
    /\ changed' = FALSE
    /\ UNCHANGED <<ast, locations, iteration, verdicts, quietPasses, changes>>

\* ... i < locations.size() fails; iteration++ }
EndPass ==
    /\ pc = "pass"
    /\ i > Len(locations)
    /\ iteration' = iteration + 1
    /\ pc' = "loop"
    /\ quietPasses' = IF changed THEN quietPasses ELSE quietPasses + 1
    /\ UNCHANGED <<ast, locations, end, i, verdicts, changed, changes>>

\* while (!end) fails: "Fixed point reached", eval_all returns.
FixedPoint ==
    /\ pc = "loop"
    /\ end
    /\ pc' = "check"
    /\ UNCHANGED <<ast, locations, end, iteration, i, verdicts, changed, quietPasses, changes>>

\* -------------------------------------------------------- check_assertions

\* The test of check_assertions that prints "Assertion might fail".
MightFail(assertion_interval) == assertion_interval.lo > assertion_interval.hi

\* Store store = locations.back()->store
AssertionStore(locs, pos) == CopyStore(locs[Len(locs)].store)

\* The statement sequence check_assertions walks: ast.children.back().
TopSequence(a) == a.children[Len(a.children)]

\* The positions of the assertions in the top-level sequence.
AssertionPositions(a) ==
    {k \in 1..Len(TopSequence(a).children) : TopSequence(a).children[k].type = "POST_CON"}

\* check_assertions: per assertion, the verdict printed and the store
\* printed with a possible failure.
check_assertions(a, locs) ==
    [k \in AssertionPositions(a) |->
        LET store == AssertionStore(locs, k)
            iv == evalLogicalExpr(TopSequence(a).children[k].children[1], store)
        IN  [proved |-> ~MightFail(iv),
             store |-> IF MightFail(iv) THEN store ELSE EmptyStore]]

CheckAssertions ==
    /\ pc = "check"
    /\ verdicts' = check_assertions(ast, locations)
    /\ pc' = "done"
    /\ UNCHANGED <<ast, locations, end, iteration, i, changed, quietPasses, changes>>

Next ==
    \/ BeginPass
    \/ EvalDeclaration
    \/ EvalAssignment
    \/ EvalPrecondition
    \/ EvalPreif
    \/ EvalIfelse
    \/ EvalPrewhile
    \/ EvalPostwhile
    \/ EndPass
    \/ FixedPoint
    \/ CheckAssertions

Spec == Init /\ [][Next]_vars

\* ------------------------------------------- concrete reference semantics
\* The executions of the analysed program, used to state soundness: an
\* environment maps every declared variable to its value.

RECURSIVE Value(_, _)
Value(e, env) ==
    CASE e.type = "INTEGER" -> e.ival
      [] e.type = "VARIABLE" -> env[e.sval]
      [] e.type = "ARITHM_OP" ->
            IF e.sval = "ADD" THEN Value(e.children[1], env) + Value(e.children[2], env)
            ELSE Value(e.children[1], env) - Value(e.children[2], env)

Holds(c, env) ==
    LET l == Value(c.children[1], env)
        r == Value(c.children[2], env)
    IN  CASE c.sval = "EQ" -> l = r
          [] c.sval = "NEQ" -> l # r
          [] c.sval = "LE" -> l < r
          [] c.sval = "LEQ" -> l <= r
          [] c.sval = "GE" -> l > r
          [] c.sval = "GEQ" -> l >= r

Sat(c, envs) == {env \in envs : Holds(c, env)}

Unsat(c, envs) == {env \in envs : ~Holds(c, env)}

\* Reach(node, envs): out, the environments after node when it starts in one
\* of envs, and pts, the environments at each location create_locations emits
\* for node, in build order.  A loop is followed for MaxUnroll iterations.
RECURSIVE Reach(_, _)
RECURSIVE ReachChildren(_, _, _)
RECURSIVE LoopStates(_, _, _, _)
Reach(node, envs) ==
    CASE node.type = "ASSIGNMENT" ->
            LET out == {[env EXCEPT ![node.children[1].sval] = Value(node.children[2], env)] :
                            env \in envs}
            IN  [out |-> out, pts |-> <<out>>]
      [] node.type = "PRE_CON" ->
            LET var == node.children[1].children[2].sval
                range == node.children[1].children[1].ival .. node.children[2].children[1].ival
                out == {[env EXCEPT ![var] = n] : env \in envs, n \in range}
            IN  [out |-> out, pts |-> <<out>>]
      [] node.type = "IFELSE" ->
            LET c == GuardOf(node)
                then == Reach(BodyOf(node, 2), Sat(c, envs))
            IN  IF Len(node.children) = 3
                THEN LET else == Reach(BodyOf(node, 3), Unsat(c, envs))
                         out == then.out \cup else.out
                     IN  [out |-> out,
                          pts |-> <<Sat(c, envs)>> \o then.pts \o <<Unsat(c, envs)>> \o else.pts \o <<out>>]
                ELSE LET out == then.out \cup Unsat(c, envs)
                     IN  [out |-> out, pts |-> <<Sat(c, envs)>> \o then.pts \o <<out>>]
      [] node.type = "WHILELOOP" ->
            LET c == GuardOf(node)
                atHead == LoopStates(node, envs, envs, MaxUnroll)
                body == Reach(BodyOf(node, 2), Sat(c, atHead))
            IN  [out |-> Unsat(c, atHead),
                 pts |-> <<Sat(c, atHead)>> \o body.pts \o <<Unsat(c, atHead)>>]
      [] node.type = "SEQUENCE" -> ReachChildren(node.children, 1, [out |-> envs, pts |-> <<>>])
      [] OTHER -> [out |-> envs, pts |-> <<>>]

ReachChildren(children, k, acc) ==
    IF k > Len(children) THEN acc
    ELSE LET r == Reach(children[k], acc.out)
         IN  ReachChildren(children, k + 1, [out |-> r.out, pts |-> acc.pts \o r.pts])

\* The environments at the head of a loop after at most n iterations.
LoopStates(node, seen, frontier, n) ==
    IF n = 0 \/ frontier = {} THEN seen
    ELSE LET next == Reach(BodyOf(node, 2), Sat(GuardOf(node), frontier)).out
         IN  LoopStates(node, seen \cup next, next \ seen, n - 1)

\* The concrete environments at every location of the program, the
\* declaration location first.
ProgramPoints(a) ==
    LET start == [{a.children[1].children[d].sval : d \in 1..Len(a.children[1].children)} -> {0}]
    IN  <<start>> \o Reach(TopSequence(a), start).pts

\* Store s holds environment env: every variable's value lies in its interval.
Covers(s, env) == \A v \in DOMAIN env : Contains(GetInterval(s, v), env[v])

\* The lattice order on stores: s below t, pointwise interval inclusion.
StoreLeq(s, t) ==
    \A v \in DOMAIN s : GetInterval(t, v).lo <= s[v].lo /\ s[v].hi <= GetInterval(t, v).hi

\* C1: soundness at every program point.  Once the solver has converged, the
\* value every variable holds at a program point in a concrete execution
\* lies inside the interval the store of that point's location gives it;
\* this includes the exit of a while loop whose guard is false on entry.
C1_Soundness ==
    pc = "done" =>
        \A k \in 1..Len(locations) : \A env \in ProgramPoints(ast)[k] : Covers(locations[k].store, env)

\* The loop heads of the program.
WhileHeads == {k \in 1..Len(locations) : locations[k].kind = "prewhile"}

\* C2: the solver terminates; at a WhileHead location the interval of every
\* variable of the store changes at most 3 times before it is stable.
C2_WideningBound == \A k \in WhileHeads : \A v \in DOMAIN changes[k] : changes[k][v] <= 3

\* C3: eval_all ends after the first full pass in which no eval changed a
\* store, never earlier and never later, and once it has ended evaluating
\* any location again leaves its store as it is.
C3_StopsAtFixpoint ==
    /\ pc = "pass" => quietPasses = 0
    /\ pc = "loop" => (quietPasses = 0 \/ (quietPasses = 1 /\ end))
    /\ pc \in {"check", "done"} =>
          /\ quietPasses = 1
          /\ ~changed
          /\ \A k \in 1..Len(locations) : EvalStore(locations, k) = locations[k].store

\* The solver has ended on a program with a loop after more than one pass.
C3_Witness == pc = "done" /\ iteration >= 2 /\ WhileHeads # {}

\* int x; x := 0; while (x < 10) { x := x + 1 }; assert x >= 10
LoopScenario == Program(<<"x">>, <<Assign("x", IntLit(0)), WhileInc, AssertGeq10>>)

\* C4: on LoopScenario the converged loop head has x = [0, I_max], the loop
\* exit has x = [10, I_max], and the assertion x >= 10 is reported proved.
C4_LoopScenario ==
    (pc = "done" /\ ast = LoopScenario) =>
        /\ IntervalEq(locations[3].store["x"], Interval(0, I64Max))
        /\ IntervalEq(locations[5].store["x"], Interval(10, I64Max))
        /\ verdicts[3].proved

\* int x; pre -5 <= x <= 5; assert x <= 10
PreScenarioLeq == Program(<<"x">>, <<PreCon(-5, "x", 5), AssertLeq10>>)

\* int x; pre -5 <= x <= 5; assert x >= 0
PreScenarioGeq == Program(<<"x">>, <<PreCon(-5, "x", 5), AssertGeq0>>)

\* C5: after pre -5 <= x <= 5, assert x <= 10 is reported proved, and
\* assert x >= 0 is reported as may-fail together with the store x = [-5, 5].
C5_PreconditionScenario ==
    /\ (pc = "done" /\ ast = PreScenarioLeq) => verdicts[2].proved
    /\ (pc = "done" /\ ast = PreScenarioGeq) =>
          /\ ~verdicts[2].proved
          /\ StoreEq(verdicts[2].store, [x \in {"x"} |-> Interval(-5, 5)])

\* int x; pre 0 <= x <= 100; if (x == 0) { x := 1 } else { x := x }; assert x >= 1
IfScenario == Program(<<"x">>, <<PreCon(0, "x", 100), IfZero, AssertGeq1>>)

\* C6: on IfScenario the converged store after the then-branch has
\* x = [1, 1], the store after the else-branch (guard filtered by x != 0) has
\* x = [1, 100], the if-else join has x = [1, 100], and the assertion is
\* reported proved.
C6_IfScenario ==
    (pc = "done" /\ ast = IfScenario) =>
        /\ IntervalEq(locations[4].store["x"], Interval(1, 1))
        /\ IntervalEq(locations[6].store["x"], Interval(1, 100))
        /\ IntervalEq(locations[7].store["x"], Interval(1, 100))
        /\ verdicts[3].proved

\* The interval check_assertions computes for the assertion at position k:
\* the left operand filtered by the unnegated operator, on the last store.
AssertionInterval(k) ==
    evalLogicalExpr(TopSequence(ast).children[k].children[1], locations[Len(locations)].store)

\* C7: check_assertions reports an assertion as proved exactly when the
\* interval obtained by filtering L with the unnegated op against R is empty
\* (lo > hi), and as possibly failing, with the current store, in every
\* other case.
C7_VerdictRule ==
    pc = "done" =>
        \A k \in AssertionPositions(ast) :
            /\ verdicts[k].proved <=> (AssertionInterval(k).lo > AssertionInterval(k).hi)
            /\ ~verdicts[k].proved => StoreEq(verdicts[k].store, locations[Len(locations)].store)

\* The location that precedes the statement at position k of the top-level
\* sequence: the last location built from the statements before it.
PredecessorLocation(a, k) ==
    Len(create_top_locations(
            Program(<<>>, SubSeq(TopSequence(a).children, 1, k - 1))))

\* C8: every assertion of the top-level sequence is checked against the
\* converged store of the location that immediately precedes it, not
\* against the store of the last location of the program.
C8_PredecessorStore ==
    pc = "done" =>
        \A k \in AssertionPositions(ast) :
            verdicts[k].proved <=>
                ~MightFail(evalLogicalExpr(TopSequence(ast).children[k].children[1],
                                           locations[PredecessorLocation(ast, k)].store))

\* C9: every store written to a location is above the store the location
\* was built with and above the store it held before the evaluation.
C9_MonotoneGrowth ==
    [][\A k \in 1..Len(locations) :
          /\ StoreLeq(locations[k].store, locations'[k].store)
          /\ StoreLeq(create_top_locations(ast)[k].store, locations'[k].store)]_vars

\* C10: at every evaluation of a WhileHead location, every variable whose
\* joined candidate is not included in the stored interval is widened
\* (the guard's variable is then filtered by the guard).
C10_WidenEveryVariable ==
    [][(pc = "pass" /\ i <= Len(locations) /\ i \in WhileHeads) =>
          LET old == locations[i].store
              cand == PrewhileJoined(locations, i)
              var == locations[i].var
          IN  \A v \in DOMAIN old :
                  ~StoreLeq([w \in {v} |-> cand[v]], [w \in {v} |-> old[v]]) =>
                      IntervalEq(locations'[i].store[v],
                                 IF v = var
                                 THEN FilterStore(locations[i].logic_node, var,
                                                  UpdateInterval(cand, var, Widen(old[v], cand[v])))[v]
                                 ELSE Widen(old[v], cand[v]))]_vars

\* The WhileHead location of the loop whose WhileExit location is k: the
\* exit is emitted right after the last location of the body.
HeadOfExit(k) == CHOOSE h \in WhileHeads : locations[h].postwhile_store = k - 1

\* C11: after each evaluation of a WhileExit location its store equals the
\* current store of the loop's WhileHead location with the guard's variable
\* restricted by the negated guard, whatever the store of the last location
\* of the loop body is.
C11_ExitFromHead ==
    [][(pc = "pass" /\ i <= Len(locations) /\ locations[i].kind = "postwhile") =>
          StoreEq(locations'[i].store,
                  FilterStore(locations[i].logic_node, locations[i].var,
                              locations[HeadOfExit(i)].store))]_vars

\* The positions of the if statements without else branch in the top-level
\* sequence.
IfThenPositions(a) ==
    {j \in 1..Len(TopSequence(a).children) :
        /\ TopSequence(a).children[j].type = "IFELSE"
        /\ Len(TopSequence(a).children[j].children) = 2}

\* C12: for an if without else branch the converged store of the IfElseJoin
\* location is the pointwise join of the store at the end of the then-branch
\* and the predecessor's store filtered by the negated guard.
C12_IfWithoutElse ==
    pc = "done" =>
        \A j \in IfThenPositions(ast) :
            LET stmt == TopSequence(ast).children[j]
                guard == GuardOf(stmt)
                pred == PredecessorLocation(ast, j)
                join == PredecessorLocation(ast, j + 1)
            IN  StoreEq(locations[join].store,
                        StoreJoin(locations[join - 1].store,
                                  FilterStore(Negated(guard), guard.children[1].sval,
                                              locations[pred].store)))

\* The if-else join locations of the program.
IfElseJoins == {k \in 1..Len(locations) : locations[k].kind = "ifelse"}

\* C13: interval join absorbs the empty interval, also an empty interval
\* with lo > hi that a filter produced and a store handed back: at every
\* converged if-else join and for every variable, an empty branch interval
\* joined with a non-empty one gives the non-empty one, and two empty
\* intervals give an empty one.
C13_JoinAbsorbsEmpty ==
    pc = "done" =>
        \A k \in IfElseJoins : \A v \in DOMAIN locations[k].store :
            LET a == GetInterval(locations[locations[k].iflocation].store, v)
                b == GetInterval(locations[locations[k].elselocation].store, v)
                j == GetInterval(locations[k].store, v)
            IN  /\ (IsEmpty(a) /\ ~IsEmpty(b)) => IntervalEq(j, b)
                /\ (IsEmpty(b) /\ ~IsEmpty(a)) => IntervalEq(j, a)
                /\ (IsEmpty(a) /\ IsEmpty(b)) => IsEmpty(j)

\* The guard locations that filter with !=.
NeqGuards ==
    {k \in 1..Len(locations) :
        locations[k].kind = "preif" /\ locations[k].logic_node.sval = "NEQ"}

\* C14: the != filter returns the empty interval exactly when the left and
\* the right operand are the same singleton, and the left interval as it is
\* in every other case: after convergence a guard location L != R holds the
\* empty interval for L in the first case and the interval L had before the
\* guard in the second.
C14_NeqFilter ==
    pc = "done" =>
        \A k \in NeqGuards :
            LET before == locations[locations[k].deps[1]].store
                L == evalArithmeticExpr(locations[k].logic_node.children[1], before)
                R == evalArithmeticExpr(locations[k].logic_node.children[2], before)
                after == GetInterval(locations[k].store, locations[k].var)
            IN  IF L.lo = L.hi /\ R.lo = R.hi /\ L.lo = R.lo
                THEN IsEmpty(after)
                ELSE IntervalEq(after, L)

====
